---------------------------- MODULE Spec2Model ----------------------------
(***************************************************************************)
(* The browser-side OIDC Authorization-Code-with-PKCE flow of the          *)
(* BillProMax front end: the auth slice (authSlice.ts), the auth API       *)
(* (authApi.ts), the useAuth hook (useAuth.ts), the callback page          *)
(* (AuthCallbackPage), the login page, the invitation-accept page and the  *)
(* 401 handling of the RTK Query base query (baseApi.ts).                  *)
(*                                                                         *)
(* One page lifetime is one JavaScript context: the redux state, the       *)
(* module-level processedCodes set and every pending promise live in it    *)
(* and are lost by a full page load; sessionStorage and localStorage       *)
(* outlive it.  Each await of the source is a point where the handler's    *)
(* continuation is a separate action, so that other events interleave      *)
(* exactly where the browser's event loop lets them.                       *)
(***************************************************************************)
EXTENDS Integers, Sequences, FiniteSets, TLC

(* ------------------------------ bounds --------------------------------- *)
\* initiateLogin calls over a whole behaviour
MaxLogins == 2
\* full page loads over a whole behaviour
MaxLoads == 3
\* runs of the callback page's effect within one page lifetime
MaxEffectRuns == 2
\* distinct authorization codes a callback URL may carry
MaxCode == 1
\* distinct token sets the provider may return
MaxToken == 1
\* distinct invitation tokens
MaxInvite == 1
\* distinct business ids
MaxBusiness == 1

(* ------------------------------ values --------------------------------- *)
\* JavaScript null / undefined / an absent storage key
Null == 0
\* error: null of the auth state
NoError == ""
InvalidStateMsg == "Invalid OAuth state. Please try logging in again."
NoVerifierMsg == "PKCE code verifier not found. Please try logging in again."
ExchangeFailedMsg == "Token exchange failed"
RefreshFailedMsg == "Token refresh failed"
\* the message of the TypeError a rejected fetch carries
FetchFailedMsg == "Failed to fetch"

Codes == 1..MaxCode
Tokens == 1..MaxToken
\* An access token that is not a decodable JWT (parseJwt's catch branch).
OpaqueToken == MaxToken + 1
\* The token sets the token endpoint may answer with, by their access token.
IssuedTokens == Tokens \cup {OpaqueToken}
Invites == 1..MaxInvite
Businesses == 1..MaxBusiness
\* A state string no initiateLogin of this browser tab has generated.
ForgedState == MaxLogins + 1
\* error_description of a token endpoint error body; "" when the body has none
ErrorDescriptions == {"", "invalid_grant"}
\* HTTP statuses a backend request may answer with
Statuses == {200, 401, 500}

VARIABLES
    route,            \* the route rendered: "login", "callback", "invitation", "app"
    url,              \* the parameters of the current URL
    session,          \* sessionStorage
    local,            \* localStorage
    auth,             \* the redux auth state
    processedCodes,   \* the module-level set of the callback page
    calls,            \* the handleCallback invocations of this page lifetime
    logins,           \* every initiateLogin call made, by call number
    accept,           \* the handleAccept invocation of the invitation page
    exchangeCount,    \* token-exchange requests issued, by validated oauth_state
    inviteReturns,    \* successful callback results, by invitation token carried
    effectRuns,       \* runs of the callback effect in this page lifetime
    loads,            \* page loads so far
    apiUsed,          \* this page lifetime has issued base-query requests
    logoutSinceLogin, \* the logout action ran and no login was initiated since
    query,            \* the base-query call that settled last in this page lifetime
    href,             \* the last assignment to window.location.href by this page
    navigated,        \* the last navigate() target of the callback page
    challans,         \* the challan list handed to ChallanForm
    timezone,         \* the browser's offset from UTC, in hours
    challanForm,      \* the watched form values of ChallanForm
    predictedNumber,  \* ChallanForm's predictedNumber memo
    localItemsMap,    \* ChallanForm's localItemsMap memo
    fyCall,           \* the last getFinancialYear call: its Date and result
    inputType,        \* EditableField's inputType prop
    value,            \* EditableField's value prop
    field,            \* EditableField's state: isEditing, editValue, error
    saves             \* the onSave calls EditableField has made

authVars == <<route, url, session, local, auth, processedCodes, calls, logins,
              accept, exchangeCount, inviteReturns, effectRuns, loads, apiUsed,
              logoutSinceLogin, query, href, navigated>>
challanVars == <<challans, timezone, challanForm, predictedNumber, localItemsMap,
                 fyCall>>
fieldVars == <<inputType, value, field, saves>>
vars == <<authVars, challanVars, fieldVars>>

(* ------------------------- authSlice.ts -------------------------------- *)
\* parseJwt: the payload of a well-formed token, null otherwise.  A payload
\* is identified with the number of the token set it was issued in.
parseJwt(token) == IF token \in Tokens THEN token ELSE Null

\* extractUserFromToken: the identity built from the token's payload.
extractUserFromToken(token) ==
    LET payload == parseJwt(token)
    IN  IF payload = Null THEN Null ELSE payload

EmptyLocal ==
    [token |-> Null, refreshToken |-> Null, idToken |-> Null,
     currentBusinessId |-> Null]

EmptySession ==
    [pkce_code_verifier |-> Null, oauth_state |-> Null, invitation_token |-> Null]

\* loadAuthState merged over the defaults of initialState.
initialState(ls) ==
    IF ls.token # Null
    THEN [user |-> extractUserFromToken(ls.token),
          token |-> ls.token,
          refreshToken |-> ls.refreshToken,
          idToken |-> ls.idToken,
          isAuthenticated |-> extractUserFromToken(ls.token) # Null,
          isLoading |-> FALSE,
          error |-> NoError,
          currentBusinessId |-> ls.currentBusinessId]
    ELSE [user |-> Null, token |-> Null, refreshToken |-> Null,
          idToken |-> Null, isAuthenticated |-> FALSE, isLoading |-> FALSE,
          error |-> NoError, currentBusinessId |-> ls.currentBusinessId]

\* The reducers act on the store: the redux auth state and the two storages.
Store(a, l, s) == [auth |-> a, local |-> l, session |-> s]

\* setCredentials decoding the user only when none is held yet.
setCredentialsKeepingUser(st, token, refreshToken, idToken) ==
    [st EXCEPT
        !.auth.token = token,
        !.auth.refreshToken = refreshToken,
        !.auth.idToken = IF idToken # Null THEN idToken ELSE @,
        !.auth.user = IF @ = Null THEN extractUserFromToken(token) ELSE @,
        !.auth.isAuthenticated = TRUE,
        !.auth.error = NoError,
        !.local.idToken = IF idToken # Null THEN idToken ELSE @,
        !.local.token = token,
        !.local.refreshToken = refreshToken]

\* setCredentials without its localStorage writes.
setCredentialsInMemoryOnly(st, token, refreshToken, idToken) ==
    [st EXCEPT
        !.auth.token = token,
        !.auth.refreshToken = refreshToken,
        !.auth.idToken = IF idToken # Null THEN idToken ELSE @,
        !.auth.user = extractUserFromToken(token),
        !.auth.isAuthenticated = TRUE,
        !.auth.error = NoError]

\* setCredentials({token, refreshToken, idToken?})
setCredentials(st, token, refreshToken, idToken) ==
    [st EXCEPT
        !.auth.token = token,
        !.auth.refreshToken = refreshToken,
        !.auth.idToken = IF idToken # Null THEN idToken ELSE @,
        !.auth.user = extractUserFromToken(token),
        !.auth.isAuthenticated = TRUE,
        !.auth.error = NoError,
        !.local.idToken = IF idToken # Null THEN idToken ELSE @,
        !.local.token = token,
        !.local.refreshToken = refreshToken]

setLoading(st, loading) == [st EXCEPT !.auth.isLoading = loading]

setError(st, message) ==
    [st EXCEPT !.auth.error = message, !.auth.isLoading = FALSE]

\* logout with the removal of the invitation_token key forgotten.
logoutKeepingInvitation(st) ==
    [st EXCEPT
        !.auth.user = Null,
        !.auth.token = Null,
        !.auth.refreshToken = Null,
        !.auth.idToken = Null,
        !.auth.isAuthenticated = FALSE,
        !.auth.error = NoError,
        !.auth.currentBusinessId = Null,
        !.local = EmptyLocal,
        !.session.pkce_code_verifier = Null,
        !.session.oauth_state = Null]

\* The logout reducer: every auth field, the durable keys and the session keys.
logout(st) ==
    [st EXCEPT
        !.auth.user = Null,
        !.auth.token = Null,
        !.auth.refreshToken = Null,
        !.auth.idToken = Null,
        !.auth.isAuthenticated = FALSE,
        !.auth.error = NoError,
        !.auth.currentBusinessId = Null,
        !.local = EmptyLocal,
        !.session = EmptySession]

\* setCurrentBusiness without its localStorage write.
setCurrentBusinessInMemoryOnly(st, businessId) ==
    [st EXCEPT !.auth.currentBusinessId = businessId]

setCurrentBusiness(st, businessId) ==
    [st EXCEPT !.auth.currentBusinessId = businessId,
               !.local.currentBusinessId = businessId]

(* --------------------------- authApi.ts -------------------------------- *)
\* validateOAuthState accepting a returned state whenever one is stored.
validateAnyStoredState(s, returnedState) ==
    [ok |-> s.oauth_state # Null, session |-> s]

\* validateOAuthState: strict equality with the stored value, and the
\* storage as the function leaves it (it removes nothing).
validateOAuthState(s, returnedState) ==
    [ok |-> s.oauth_state = returnedState, session |-> s]

\* getStoredInvitationToken without its removeItem.
peekInvitationToken(s) == [token |-> s.invitation_token, session |-> s]

\* getStoredInvitationToken: the value read, and the storage with the key removed.
getStoredInvitationToken(s) ==
    [token |-> s.invitation_token,
     session |-> [s EXCEPT !.invitation_token = Null]]

\* The two removeItem calls of exchangeCode that follow the awaited fetch.
clearPkce(s) == [s EXCEPT !.pkce_code_verifier = Null, !.oauth_state = Null]

\* generateCodeChallenge: the base64url SHA-256 digest of the verifier, a
\* value that determines the verifier and is none of the verifiers.
generateCodeChallenge(verifier) == <<"S256", verifier>>

\* initiateLogin leaving a state already stored in place.
storeLoginKeepingState(s, k, invitationToken) ==
    [s EXCEPT
        !.pkce_code_verifier = k,
        !.oauth_state = IF @ = Null THEN k ELSE @,
        !.invitation_token = IF invitationToken # Null THEN invitationToken ELSE @]

\* The three setItem calls of initiateLogin, for the call numbered k: its
\* verifier and its state are the random strings of that call.
storeLogin(s, k, invitationToken) ==
    [s EXCEPT
        !.pkce_code_verifier = k,
        !.oauth_state = k,
        !.invitation_token = IF invitationToken # Null THEN invitationToken ELSE @]

\* The authorization URL initiateLogin assigns to window.location.href
\* ('auth' or 'registrations' endpoint), with what durable storage holds
\* at that moment.
authorizationUrl(state, codeChallenge, l) ==
    [endpoint |-> "authorize", state |-> state, challenge |-> codeChallenge,
     hint |-> Null, storedToken |-> l.token]

\* logoutFromKeycloak: the provider's logout URL assigned to
\* window.location.href, with the id_token_hint when one is given and
\* with what durable storage holds at that moment.
logoutFromKeycloak(idTokenHint, l) ==
    [endpoint |-> "logout", state |-> Null, challenge |-> <<>>,
     hint |-> IF idTokenHint # Null THEN idTokenHint ELSE Null,
     storedToken |-> l.token]

(* ------------------------------ routing -------------------------------- *)
NoUrl == [code |-> Null, state |-> Null, error |-> FALSE, invitation |-> Null]

\* The login page's effect: an authenticated visitor is sent to '/'.
Settle(r, a) == IF r = "login" /\ a.isAuthenticated THEN "app" ELSE r

\* Routes whose components issue requests through the base query.
UsesApi(r) == r \in {"app", "invitation"}

\* No base-query call has settled yet in this page lifetime.
NoQuery ==
    [status |-> Null, fetches |-> 0, refreshRequests |-> 0,
     dispatched |-> FALSE, result |-> Null]

\* window.location.href has not been assigned by this page.
NoHref ==
    [endpoint |-> "none", state |-> Null, challenge |-> <<>>, hint |-> Null,
     storedToken |-> Null]

\* handleAccept before the button is pressed.
IdleAccept ==
    [pc |-> "idle", refreshToken |-> Null, access |-> Null, refresh |-> Null,
     id |-> Null, refreshRequests |-> 0, error |-> NoError]

(* ------------------------- ChallanForm.tsx ----------------------------- *)
\* The longest challan list handed to the form.
MaxChallans == 2

\* A date string 'YYYY-MM-DD' is [year, month 1..12, day]; '' is NoDate.
NoDate == [year |-> 0, month |-> 0, day |-> 0]

\* A Date object read through getFullYear(), getMonth() (0..11), getDate().
LocalDate(year, month, day) == [year |-> year, month |-> month, day |-> day]

daysInMonth(year, month) ==
    IF month = 1
    THEN IF year % 4 = 0 /\ (year % 100 # 0 \/ year % 400 = 0) THEN 29 ELSE 28
    ELSE IF month \in {3, 5, 8, 10} THEN 30 ELSE 31

previousDay(date) ==
    IF date.day > 1 THEN LocalDate(date.year, date.month, date.day - 1)
    ELSE IF date.month > 0
         THEN LocalDate(date.year, date.month - 1,
                        daysInMonth(date.year, date.month - 1))
         ELSE LocalDate(date.year - 1, 11, 31)

\* new Date('YYYY-MM-DD') is midnight UTC of that day; the getters read it in
\* the browser's zone, where a zone behind UTC is still on the previous day.
\* new Date() is the current local date, now.
newDate(dateStr, now, tz) ==
    IF dateStr = NoDate THEN now
    ELSE LET utc == LocalDate(dateStr.year, dateStr.month - 1, dateStr.day)
         IN  IF tz < 0 THEN previousDay(utc) ELSE utc

\* The financial year that starts in January.
getFinancialYearOfCalendarYear(date) ==
    <<date.year, (date.year + 1) % 100>>

\* getFinancialYear: '<fyStartYear>-<last two digits of fyEndYear>' as the pair
\* of its two numbers.
getFinancialYear(date) ==
    LET month == date.month
        year == date.year
        fyStartYear == IF month < 3 THEN year - 1 ELSE year
        fyEndYear == fyStartYear + 1
    IN  <<fyStartYear, fyEndYear % 100>>

\* A challan number '<P>-<FY>-<NNNN>' is the sequence <<P, start, end, N>> of
\* its parts, and the pattern '<P>-<FY>-' the sequence of the first three;
\* zero-padding a sequence number to four digits keeps the number.
startsWith(s, pattern) ==
    Len(s) >= Len(pattern) /\ SubSeq(s, 1, Len(pattern)) = pattern

predictChallanNumberLocally(cs, type, dateStr, now, tz) ==
    LET prefix == IF type = "delivery" THEN "D" ELSE "R"
        fy == getFinancialYear(newDate(dateStr, now, tz))
        pattern == <<prefix>> \o fy
        count == Cardinality({i \in DOMAIN cs :
                                 startsWith(cs[i].challanNumber, pattern)})
    IN  pattern \o <<count + 1>>

\* A Map<string, number>: a function on the keys that were set.
EmptyMap == [k \in {} |-> 0]
mapGet(m, k) == IF k \in DOMAIN m THEN m[k] ELSE 0
mapSet(m, k, v) == [x \in DOMAIN m \cup {k} |-> IF x = k THEN v ELSE m[x]]

\* The inner loop of computeItemsWithPartyLocally over one challan's items.
RECURSIVE addItems(_, _, _)
addItems(qtyMap, type, items) ==
    IF items = <<>> THEN qtyMap
    ELSE LET item == Head(items)
             current == mapGet(qtyMap, item.itemId)
             delta == IF type = "delivery" THEN item.quantity ELSE 0 - item.quantity
         IN  addItems(mapSet(qtyMap, item.itemId, current + delta), type, Tail(items))

\* The outer loop, over the relevant challans in list order.
RECURSIVE addChallans(_, _)
addChallans(qtyMap, relevant) ==
    IF relevant = <<>> THEN qtyMap
    ELSE addChallans(addItems(qtyMap, Head(relevant).type, Head(relevant).items),
                     Tail(relevant))

\* The aggregation without the status filter.
computeItemsOfAnyStatus(cs, partyId, agreementId) ==
    LET relevant == SelectSeq(cs, LAMBDA c :
                        c.partyId = partyId /\ c.agreementId = agreementId)
    IN  addChallans(EmptyMap, relevant)

computeItemsWithPartyLocally(cs, partyId, agreementId) ==
    LET relevant == SelectSeq(cs, LAMBDA c :
                        /\ c.partyId = partyId
                        /\ c.agreementId = agreementId
                        /\ c.status = "confirmed")
    IN  addChallans(EmptyMap, relevant)

\* undefined, for a challan number.
NoNumber == <<>>

\* useGetNextChallanNumberQuery before it has an answer.
FetchingQuery == [data |-> NoNumber, isFetching |-> TRUE, isError |-> FALSE]

\* The form's default values, with the date field emptied.
DefaultForm ==
    [type |-> "delivery", date |-> NoDate, partyId |-> Null, agreementId |-> Null,
     nextNumber |-> FetchingQuery]

\* The predictedNumber memo of a render.
predictedNumberMemo(cs, form, now, tz) ==
    IF form.nextNumber.data # NoNumber THEN form.nextNumber.data
    ELSE IF form.nextNumber.isError \/ ~form.nextNumber.isFetching
         THEN predictChallanNumberLocally(cs, form.type, form.date, now, tz)
         ELSE NoNumber

\* The localItemsMap memo of a render.
localItemsMapMemo(cs, form) ==
    IF form.partyId = Null \/ form.agreementId = Null THEN EmptyMap
    ELSE computeItemsWithPartyLocally(cs, form.partyId, form.agreementId)

\* No getFinancialYear call yet.
NoCall == [made |-> FALSE, date |-> LocalDate(0, 0, 0), result |-> <<>>]

\* The form before any challan is loaded.
ChallanIdle ==
    /\ challans = <<>>
    /\ timezone = 5
    /\ challanForm = DefaultForm
    /\ predictedNumber = NoNumber
    /\ localItemsMap = EmptyMap
    /\ fyCall = NoCall

(* ------------------------ EditableField.tsx ---------------------------- *)
\* The most onSave calls one field makes.
MaxSaves == 3

\* JavaScript values of the three types the field handles.
Undefined == [t |-> "undefined", n |-> 0, s |-> ""]
Num(n) == [t |-> "number", n |-> n, s |-> ""]
Str(s) == [t |-> "string", n |-> 0, s |-> s]

\* value ?? ''
orEmpty(v) == IF v = Undefined THEN Str("") ELSE v

\* Number(editValue): a number is itself, '' is 0, a numeral is its number.
Numerals == <<"1", "2">>
Number(v) ==
    IF v.t = "number" THEN v
    ELSE IF v.s = "" THEN Num(0)
    ELSE Num(CHOOSE n \in DOMAIN Numerals : Numerals[n] = v.s)

InputTypes == {"text", "number", "textarea"}

\* What the value prop can be, and what the input can be made to hold.
PropValues(type) ==
    IF type = "number" THEN {Undefined, Num(1), Num(2)}
    ELSE {Undefined, Str("a"), Str("b")}
RawValues(type) ==
    IF type = "number" THEN {"", "1", "2"} ELSE {"", "a", "b"}

SaveFailedMsg == "Save failed"

\* useState's initial values; focused is whether the input holds the focus.
ViewMode(v) ==
    [isEditing |-> FALSE, editValue |-> orEmpty(v), error |-> NoError,
     focused |-> FALSE]

\* A field nobody edits.
FieldIdle ==
    /\ inputType = "text"
    /\ value = Undefined
    /\ field = ViewMode(Undefined)
    /\ saves = <<>>

(* -------------------------------- Init --------------------------------- *)
AuthInit ==
    /\ route = "login"
    /\ url = NoUrl
    /\ session = EmptySession
    /\ local = EmptyLocal
    /\ auth = initialState(EmptyLocal)
    /\ processedCodes = {}
    /\ calls = <<>>
    /\ logins = <<>>
    /\ accept = IdleAccept
    /\ exchangeCount = [s \in 1..MaxLogins |-> 0]
    /\ inviteReturns = [t \in Invites |-> 0]
    /\ effectRuns = 0
    /\ loads = 0
    /\ apiUsed = FALSE
    /\ logoutSinceLogin = FALSE
    /\ query = NoQuery
    /\ href = NoHref
    /\ navigated = "none"

Init == AuthInit /\ ChallanIdle /\ FieldIdle

(* --------------------------- page lifetime ----------------------------- *)
\* The state strings this tab has stored so far, and one it never generated.
UrlStates == {k \in 1..Len(logins) : logins[k].pc = "stored"} \cup {ForgedState}

CallbackUrls ==
    {[code |-> c, state |-> s, error |-> FALSE, invitation |-> Null] :
        c \in Codes \cup {Null}, s \in UrlStates \cup {Null}}
    \cup {[code |-> Null, state |-> Null, error |-> TRUE, invitation |-> Null]}

InvitationUrls ==
    {[code |-> Null, state |-> Null, error |-> FALSE, invitation |-> t] :
        t \in Invites}

\* A full page load (the return from the provider, a reload, a typed URL):
\* the store is rebuilt from localStorage, the module-level set is empty
\* again and whatever was pending in the previous page is abandoned.
PageLoad(r, u) ==
    /\ loads < MaxLoads
    /\ loads' = loads + 1
    /\ auth' = initialState(local)
    /\ route' = Settle(r, auth')
    /\ url' = u
    /\ processedCodes' = {}
    /\ calls' = <<>>
    /\ logins' = [k \in 1..Len(logins) |->
                    IF logins[k].pc = "digest"
                    THEN [logins[k] EXCEPT !.pc = "dropped"] ELSE logins[k]]
    /\ accept' = IdleAccept
    /\ effectRuns' = 0
    /\ apiUsed' = UsesApi(route')
    /\ query' = NoQuery
    /\ href' = NoHref
    /\ navigated' = "none"
    /\ UNCHANGED <<challanVars, fieldVars, session, local, exchangeCount, inviteReturns, logoutSinceLogin>>

LoadCallbackPage == \E u \in CallbackUrls : PageLoad("callback", u)
LoadInvitationPage == \E u \in InvitationUrls : PageLoad("invitation", u)
LoadLoginPage == PageLoad("login", NoUrl)
LoadAppPage == PageLoad("app", NoUrl)

(* ------------------------ initiateLogin -------------------------------- *)
\* useAuth.login -> initiateLogin up to its await of the SHA-256 digest.
\* The registration hint only selects the provider endpoint navigated to.
\* The login page passes no invitation token, the invitation page (shown
\* with the sign-in buttons when unauthenticated) passes the URL's.
LoginClick(registrationHint) ==
    /\ Len(logins) < MaxLogins
    /\ \/ route = "login"
       \/ route = "invitation" /\ ~auth.isAuthenticated
    /\ logins' = Append(logins,
          [invitationToken |-> IF route = "invitation" THEN url.invitation ELSE Null,
           pc |-> "digest"])
    /\ logoutSinceLogin' = FALSE
    /\ UNCHANGED <<challanVars, fieldVars, route, url, session, local, auth, processedCodes, calls,
                   accept, exchangeCount, inviteReturns, effectRuns, loads, apiUsed,
                   query, href, navigated>>

\* initiateLogin after the digest: the state is generated, the values are
\* stored and window.location.href is assigned.
InitiateLoginStore(k) ==
    /\ logins[k].pc = "digest"
    /\ session' = storeLogin(session, k, logins[k].invitationToken)
    /\ logins' = [logins EXCEPT ![k].pc = "stored"]
    /\ href' = authorizationUrl(k, generateCodeChallenge(k), local)
    /\ logoutSinceLogin' = FALSE
    /\ UNCHANGED <<challanVars, fieldVars, route, url, local, auth, processedCodes, calls, accept,
                   exchangeCount, inviteReturns, effectRuns, loads, apiUsed,
                   query, navigated>>

(* ------------------- AuthCallbackPage / handleCallback ----------------- *)
\* What the model records of one handleCallback invocation: its arguments,
\* where it stands, the request it issued, what the storage held at the
\* points the source reads or clears it, its result and the page's navigation.
NewCall(code, state) ==
    [code |-> code, state |-> state, pc |-> "start",
     storedState |-> session.oauth_state, stateAfterValidation |-> Null,
     requested |-> FALSE, verifier |-> Null,
     verifierAfterExchange |-> Null, stateAfterExchange |-> Null,
     response |-> "none", description |-> "",
     access |-> Null, refresh |-> Null, id |-> Null,
     syncToken |-> Null, syncRequests |-> 0, syncOutcome |-> "none",
     success |-> FALSE, failure |-> NoError, invitationToken |-> Null,
     inviteKeyAfter |-> Null, nav |-> "none", navToken |-> Null]

\* The continuation sending a failed callback to '/' as well.
CallbackNavigateHome(success, invitationToken) ==
    IF success /\ invitationToken # Null
    THEN [route |-> "invitation", path |-> "/invitations", token |-> invitationToken]
    ELSE [route |-> "app", path |-> "/", token |-> Null]

\* The continuation the page attaches to handleCallback's promise.
CallbackNavigate(success, invitationToken) ==
    IF success
    THEN IF invitationToken # Null
         THEN [route |-> "invitation", path |-> "/invitations", token |-> invitationToken]
         ELSE [route |-> "app", path |-> "/", token |-> Null]
    ELSE [route |-> "login", path |-> "/login", token |-> Null]

\* The URL parameters after a navigation of the callback page.
NavigatedUrl(nav) ==
    IF nav.route = "invitation" THEN [NoUrl EXCEPT !.invitation = nav.token] ELSE NoUrl

\* The effect with an error parameter, or without a code or a state.
EffectRedirectLogin ==
    /\ route = "callback"
    /\ effectRuns < MaxEffectRuns
    /\ url.error \/ url.code = Null \/ url.state = Null
    /\ effectRuns' = effectRuns + 1
    /\ navigated' = "/login"
    /\ route' = Settle("login", auth)
    /\ url' = NoUrl
    /\ UNCHANGED <<challanVars, fieldVars, session, local, auth, processedCodes, calls, logins, accept,
                   exchangeCount, inviteReturns, loads, apiUsed, logoutSinceLogin,
                   query, href>>

\* The effect without its processedCodes guard.
NeverProcessed(code) == FALSE

\* The guard of the effect turning every code away.
AlwaysProcessed(code) == TRUE

\* The guard of the effect: a code passes it once per page lifetime.
AlreadyProcessed(code) == code \in processedCodes

\* The effect for a code that processedCodes already holds.
EffectSkip ==
    /\ route = "callback"
    /\ effectRuns < MaxEffectRuns
    /\ ~url.error /\ url.code # Null /\ url.state # Null
    /\ AlreadyProcessed(url.code)
    /\ effectRuns' = effectRuns + 1
    /\ UNCHANGED <<challanVars, fieldVars, route, url, session, local, auth, processedCodes, calls,
                   logins, accept, exchangeCount, inviteReturns, loads, apiUsed,
                   logoutSinceLogin,
                   query, href, navigated>>

\* handleCallback ending in its catch block: setError, the result
\* {success: false}, setLoading(false), and the page's navigate('/login').
FailCall(st, call, message) ==
    LET nav == CallbackNavigate(FALSE, Null)
    IN  [store |-> setLoading(setError(st, message), FALSE),
         nav |-> nav,
         call |-> [call EXCEPT !.pc = "done", !.success = FALSE,
                               !.failure = message, !.nav = nav.path]]

\* The effect calling handleCallback, up to the first await: setLoading,
\* setError(null), validateOAuthState, and exchangeCode up to its fetch.
EffectHandle ==
    /\ route = "callback"
    /\ effectRuns < MaxEffectRuns
    /\ ~url.error /\ url.code # Null /\ url.state # Null
    /\ ~AlreadyProcessed(url.code)
    /\ effectRuns' = effectRuns + 1
    /\ processedCodes' = processedCodes \cup {url.code}
    /\ LET v == validateOAuthState(session, url.state)
           st0 == setError(setLoading(Store(auth, local, v.session), TRUE), NoError)
           call == [NewCall(url.code, url.state) EXCEPT
                       !.stateAfterValidation = v.session.oauth_state]
       IN  /\ session' = v.session
           /\ IF ~v.ok
              THEN LET f == FailCall(st0, call, InvalidStateMsg)
                   IN  /\ auth' = f.store.auth
                       /\ calls' = Append(calls, f.call)
                       /\ route' = Settle(f.nav.route, auth')
                       /\ url' = NavigatedUrl(f.nav)
                       /\ navigated' = f.nav.path
                       /\ UNCHANGED exchangeCount
              ELSE IF v.session.pkce_code_verifier = Null
              THEN LET f == FailCall(st0, call, NoVerifierMsg)
                   IN  /\ auth' = f.store.auth
                       /\ calls' = Append(calls, f.call)
                       /\ route' = Settle(f.nav.route, auth')
                       /\ url' = NavigatedUrl(f.nav)
                       /\ navigated' = f.nav.path
                       /\ UNCHANGED exchangeCount
              ELSE /\ auth' = st0.auth
                   /\ calls' = Append(calls,
                         [call EXCEPT !.pc = "exchange", !.requested = TRUE,
                                      !.verifier = v.session.pkce_code_verifier])
                   /\ exchangeCount' =
                         [exchangeCount EXCEPT ![v.session.oauth_state] = @ + 1]
                   /\ UNCHANGED <<route, url, navigated>>
    /\ UNCHANGED <<challanVars, fieldVars, local, logins, accept, inviteReturns, loads, apiUsed,
                   logoutSinceLogin, query, href>>

\* What a call records of the storage once its exchange attempt is over.
AfterExchange(call, s) ==
    [call EXCEPT !.verifierAfterExchange = s.pkce_code_verifier,
                 !.stateAfterExchange = s.oauth_state]

\* The fetch of exchangeCode rejects: nothing after the await runs, and
\* handleCallback's catch block takes the error.
ExchangeNetworkFailure(i) ==
    /\ calls[i].pc = "exchange"
    /\ LET f == FailCall(Store(auth, local, session),
                         [AfterExchange(calls[i], session) EXCEPT
                             !.response = "rejected"],
                         FetchFailedMsg)
       IN  /\ auth' = f.store.auth
           /\ calls' = [calls EXCEPT ![i] = f.call]
           /\ route' = Settle(f.nav.route, auth')
           /\ url' = NavigatedUrl(f.nav)
           /\ navigated' = f.nav.path
    /\ UNCHANGED <<challanVars, fieldVars, session, local, processedCodes, logins, accept, exchangeCount,
                   inviteReturns, effectRuns, loads, apiUsed, logoutSinceLogin,
                   query, href>>

\* exchangeCode's error always carrying the generic message.
genericExchangeMessage(description) == ExchangeFailedMsg

\* The message exchangeCode throws for a non-success response whose body
\* has the given error_description ("" when absent or unreadable).
exchangeErrorMessage(description) ==
    IF description # "" THEN description ELSE ExchangeFailedMsg

\* The token endpoint answers with a non-success status; the error body is
\* read and exchangeCode throws its error_description or the generic message.
ExchangeHttpError(i, description) ==
    /\ calls[i].pc = "exchange"
    /\ session' = clearPkce(session)
    /\ LET message == exchangeErrorMessage(description)
           f == FailCall(Store(auth, local, session'),
                         [AfterExchange(calls[i], session') EXCEPT
                             !.response = "error", !.description = description],
                         message)
       IN  /\ auth' = f.store.auth
           /\ calls' = [calls EXCEPT ![i] = f.call]
           /\ route' = Settle(f.nav.route, auth')
           /\ url' = NavigatedUrl(f.nav)
           /\ navigated' = f.nav.path
    /\ UNCHANGED <<challanVars, fieldVars, local, processedCodes, logins, accept, exchangeCount,
                   inviteReturns, effectRuns, loads, apiUsed, logoutSinceLogin,
                   query, href>>

\* The body of a successful token response.
TokenResponse(access, refresh, id) ==
    [access_token |-> access, refresh_token |-> refresh, id_token |-> id]

\* The /auth/sync request authorised with the id token.
syncWithIdToken(tokenResponse) == tokenResponse.id_token

\* The bearer token of the /auth/sync request: the access token of the
\* exchange response.
syncAuthorization(tokenResponse) == tokenResponse.access_token

\* The token endpoint answers with token set n (with or without an id
\* token): the keys are removed, the body is read, setCredentials is
\* dispatched and the /auth/sync request is issued with the access token.
ExchangeSuccess(i, n, withId) ==
    /\ calls[i].pc = "exchange"
    /\ LET idToken == IF withId THEN n ELSE Null
           st == setCredentials(Store(auth, local, clearPkce(session)), n, n, idToken)
       IN  /\ auth' = st.auth
           /\ local' = st.local
           /\ session' = st.session
           /\ calls' = [calls EXCEPT ![i] =
                 [AfterExchange(calls[i], st.session) EXCEPT
                     !.pc = "sync", !.response = "ok",
                     !.access = n, !.refresh = n, !.id = idToken,
                     !.syncToken = syncAuthorization(TokenResponse(n, n, idToken)),
                     !.syncRequests = @ + 1]]
    /\ UNCHANGED <<challanVars, fieldVars, route, url, processedCodes, logins, accept, exchangeCount,
                   inviteReturns, effectRuns, loads, apiUsed, logoutSinceLogin,
                   query, href, navigated>>

\* The outcomes of the /auth/sync fetch: a 2xx response, an error status,
\* a rejected promise.
SyncOutcomes == {"ok", "error", "rejected"}

\* The /auth/sync block letting a rejected fetch through to the outer catch.
SyncThrowsOnRejection(outcome) == outcome = "rejected"

\* Whether the inner try/catch around the /auth/sync fetch lets an error
\* out: the response is not inspected and a rejection is caught.
SyncThrows(outcome) == FALSE

\* The /auth/sync fetch settles, whatever its outcome: the invitation token
\* is read and removed, handleCallback returns {success: true,
\* invitationToken}, setLoading(false) runs and the page navigates.
SyncSettled(i, outcome) ==
    /\ calls[i].pc = "sync"
    /\ LET success == ~SyncThrows(outcome)
           got == IF success THEN getStoredInvitationToken(session)
                  ELSE [token |-> Null, session |-> session]
           st0 == Store(auth, local, got.session)
           st == setLoading(IF success THEN st0 ELSE setError(st0, FetchFailedMsg),
                            FALSE)
           nav == CallbackNavigate(success, got.token)
       IN  /\ session' = st.session
           /\ auth' = st.auth
           /\ calls' = [calls EXCEPT
                 ![i].pc = "done", ![i].success = success,
                 ![i].syncOutcome = outcome,
                 ![i].failure = IF success THEN NoError ELSE FetchFailedMsg,
                 ![i].invitationToken = got.token,
                 ![i].inviteKeyAfter = got.session.invitation_token,
                 ![i].nav = nav.path, ![i].navToken = nav.token]
           /\ route' = Settle(nav.route, auth')
           /\ url' = NavigatedUrl(nav)
           /\ navigated' = nav.path
           /\ inviteReturns' =
                 IF got.token # Null
                 THEN [inviteReturns EXCEPT ![got.token] = @ + 1]
                 ELSE inviteReturns
    /\ apiUsed' = TRUE
    /\ UNCHANGED <<challanVars, fieldVars, local, processedCodes, logins, accept, exchangeCount,
                   effectRuns, loads, logoutSinceLogin, query, href>>

(* ------------------------------ logout --------------------------------- *)
\* The logout action dispatched: the reducer, and the routes re-rendered.
DispatchLogout ==
    /\ LET st == logout(Store(auth, local, session))
       IN  /\ auth' = st.auth
           /\ local' = st.local
           /\ session' = st.session
    /\ logoutSinceLogin' = TRUE

\* baseQueryWithReauth answering a 401 by refreshing and retrying.
baseQueryWithRefresh(status) ==
    [status |-> status,
     fetches |-> IF status = 401 THEN 2 ELSE 1,
     refreshRequests |-> IF status = 401 THEN 1 ELSE 0,
     dispatched |-> FALSE,
     result |-> IF status = 401 THEN 200 ELSE status]

\* baseQueryWithReauth for a request the backend answers with status: one
\* fetch through baseQuery, the logout action when the result is an error
\* of status 401, and the result returned as it came.
baseQueryWithReauth(status) ==
    LET error == status \notin 200..299
    IN  [status |-> status,
         fetches |-> 1,
         refreshRequests |-> 0,
         dispatched |-> error /\ status = 401,
         result |-> status]

\* A request of this page lifetime made through the base query settles.
BaseQuery(status) ==
    /\ apiUsed
    /\ LET r == baseQueryWithReauth(status)
       IN  /\ query' = r
           /\ IF r.dispatched
              THEN DispatchLogout
              ELSE UNCHANGED <<auth, local, session, logoutSinceLogin>>
    /\ UNCHANGED <<challanVars, fieldVars, route, url, processedCodes, calls, logins, accept,
                   exchangeCount, inviteReturns, effectRuns, loads, apiUsed,
                   href, navigated>>

\* baseQueryWithReauth: a request of this page lifetime answers 401.
Logout401 == BaseQuery(401)

\* A request answers with any other status.
BaseQueryOther == \E status \in Statuses \ {401} : BaseQuery(status)

\* useAuth.logout reading the id token after the logout action.
useAuthLogoutHintAfterClear(st) ==
    LET cleared == logout(st)
    IN  [store |-> cleared,
         href |-> logoutFromKeycloak(cleared.auth.idToken, cleared.local)]

\* useAuth.logout: the id token is read, the logout action is dispatched,
\* then logoutFromKeycloak is called with the id token read.
useAuthLogout(st) ==
    LET currentIdToken == st.auth.idToken
        cleared == logout(st)
    IN  [store |-> cleared,
         href |-> logoutFromKeycloak(currentIdToken, cleared.local)]

\* useAuth.logout, from the Layout's button (rendered behind the auth guard).
LogoutClick ==
    /\ route = "app"
    /\ auth.isAuthenticated
    /\ LET r == useAuthLogout(Store(auth, local, session))
       IN  /\ auth' = r.store.auth
           /\ local' = r.store.local
           /\ session' = r.store.session
           /\ href' = r.href
    /\ logoutSinceLogin' = TRUE
    /\ UNCHANGED <<challanVars, fieldVars, route, url, processedCodes, calls, logins, accept,
                   exchangeCount, inviteReturns, effectRuns, loads, apiUsed,
                   query, navigated>>

(* ----------------------- InvitationAcceptPage -------------------------- *)
\* handleAccept up to the await of the accept mutation; the refresh token
\* is the one of the render the click happened in.
AcceptClick ==
    /\ route = "invitation"
    /\ auth.isAuthenticated
    /\ accept.pc = "idle"
    /\ accept' = [IdleAccept EXCEPT !.pc = "accepting",
                                    !.refreshToken = auth.refreshToken]
    /\ UNCHANGED <<challanVars, fieldVars, route, url, session, local, auth, processedCodes, calls,
                   logins, exchangeCount, inviteReturns, effectRuns, loads, apiUsed,
                   logoutSinceLogin,
                   query, href, navigated>>

\* The accept mutation succeeds: the refresh request is issued when a
\* refresh token was held.
AcceptSucceeded ==
    /\ accept.pc = "accepting"
    /\ accept' = [accept EXCEPT
          !.pc = IF accept.refreshToken # Null THEN "refreshing" ELSE "done",
          !.refreshRequests = IF accept.refreshToken # Null THEN @ + 1 ELSE @]
    /\ UNCHANGED <<challanVars, fieldVars, route, url, session, local, auth, processedCodes, calls,
                   logins, exchangeCount, inviteReturns, effectRuns, loads, apiUsed,
                   logoutSinceLogin,
                   query, href, navigated>>

\* The accept mutation fails: unwrap throws into the outer catch.
AcceptFailed ==
    /\ accept.pc = "accepting"
    /\ accept' = IdleAccept
    /\ UNCHANGED <<challanVars, fieldVars, route, url, session, local, auth, processedCodes, calls,
                   logins, exchangeCount, inviteReturns, effectRuns, loads, apiUsed,
                   logoutSinceLogin,
                   query, href, navigated>>

\* refreshToken answers with token set n: setCredentials without an id token.
RefreshSuccess(n, withId) ==
    /\ accept.pc = "refreshing"
    /\ LET st == setCredentials(Store(auth, local, session), n, n, Null)
       IN  /\ auth' = st.auth
           /\ local' = st.local
    /\ accept' = [accept EXCEPT !.pc = "done", !.access = n, !.refresh = n,
                                !.id = IF withId THEN n ELSE Null]
    /\ route' = Settle(route, auth')
    /\ UNCHANGED <<challanVars, fieldVars, url, session, processedCodes, calls, logins, exchangeCount, inviteReturns,
                   effectRuns, loads, apiUsed, logoutSinceLogin,
                   query, href, navigated>>

\* The inner catch forcing a logout when the refresh fails.
logoutOnRefreshFailure(st) == logout(st)

\* The inner catch block of handleAccept: it is empty, the store is left
\* as it is.
refreshCatch(st) == st

\* The token endpoint answers the refresh with a non-success status:
\* refreshToken throws 'Token refresh failed', the inner catch takes it,
\* and handleAccept goes on to setActionDone(true).
RefreshFailed ==
    /\ accept.pc = "refreshing"
    /\ accept' = [accept EXCEPT !.pc = "done", !.error = RefreshFailedMsg]
    /\ LET st == refreshCatch(Store(auth, local, session))
       IN  /\ auth' = st.auth
           /\ local' = st.local
           /\ session' = st.session
    /\ UNCHANGED <<challanVars, fieldVars, route, url, processedCodes, calls,
                   logins, exchangeCount, inviteReturns, effectRuns, loads, apiUsed,
                   logoutSinceLogin, query, href, navigated>>

\* The two-second timer after setActionDone(true): navigate('/').
AcceptRedirect ==
    /\ accept.pc = "done"
    /\ route = "invitation"
    /\ route' = "app"
    /\ url' = NoUrl
    /\ accept' = IdleAccept
    /\ UNCHANGED <<challanVars, fieldVars, session, local, auth, processedCodes, calls, logins,
                   exchangeCount, inviteReturns, effectRuns, loads, apiUsed, logoutSinceLogin,
                   query, href, navigated>>

(* ------------------------ useCurrentBusiness --------------------------- *)
SelectBusiness(b) ==
    /\ route = "app"
    /\ auth.isAuthenticated
    /\ LET st == setCurrentBusiness(Store(auth, local, session), b)
       IN  /\ auth' = st.auth
           /\ local' = st.local
    /\ UNCHANGED <<challanVars, fieldVars, route, url, session, processedCodes, calls, logins, accept,
                   exchangeCount, inviteReturns, effectRuns, loads, apiUsed, logoutSinceLogin,
                   query, href, navigated>>

(* ------------------------------- Next ---------------------------------- *)
Next ==
    \/ LoadCallbackPage
    \/ LoadInvitationPage
    \/ LoadLoginPage
    \/ LoadAppPage
    \/ \E reg \in BOOLEAN : LoginClick(reg)
    \/ \E k \in 1..Len(logins) : InitiateLoginStore(k)
    \/ EffectRedirectLogin
    \/ EffectSkip
    \/ EffectHandle
    \/ \E i \in 1..Len(calls) : ExchangeNetworkFailure(i)
    \/ \E i \in 1..Len(calls), d \in ErrorDescriptions : ExchangeHttpError(i, d)
    \/ \E i \in 1..Len(calls), n \in IssuedTokens, withId \in BOOLEAN :
          ExchangeSuccess(i, n, withId)
    \/ \E i \in 1..Len(calls), o \in SyncOutcomes : SyncSettled(i, o)
    \/ Logout401
    \/ BaseQueryOther
    \/ LogoutClick
    \/ AcceptClick
    \/ AcceptSucceeded
    \/ AcceptFailed
    \/ \E n \in IssuedTokens, withId \in BOOLEAN : RefreshSuccess(n, withId)
    \/ RefreshFailed
    \/ AcceptRedirect
    \/ \E b \in Businesses : SelectBusiness(b)

Spec == Init /\ [][Next]_vars

\* The token-exchange fetch of invocation i settles, one way or another.
ExchangeSettled(i) ==
    \/ ExchangeNetworkFailure(i)
    \/ \E d \in ErrorDescriptions : ExchangeHttpError(i, d)
    \/ \E n \in IssuedTokens, withId \in BOOLEAN : ExchangeSuccess(i, n, withId)

\* React runs the effect of a mounted callback page, and every network
\* request a handleCallback invocation has issued completes.  An
\* invocation passes the processedCodes guard, so a page lifetime has at
\* most one per code.
Fairness ==
    /\ WF_vars(EffectRedirectLogin)
    /\ WF_vars(EffectSkip)
    /\ WF_vars(EffectHandle)
    /\ \A i \in 1..MaxCode :
          /\ WF_vars(i \in DOMAIN calls /\ ExchangeSettled(i))
          /\ WF_vars(i \in DOMAIN calls /\ \E o \in SyncOutcomes : SyncSettled(i, o))

FairSpec == Spec /\ Fairness

(* ----------------------- ChallanForm: renders -------------------------- *)
\* The browser's zone: behind UTC, or ahead of it.
Timezones == {-5, 5}

\* The date field: the last day of a financial year, the first of the next,
\* a new calendar year, or nothing.
DateStrings ==
    {[year |-> 2025, month |-> 3, day |-> 31],
     [year |-> 2025, month |-> 4, day |-> 1],
     [year |-> 2026, month |-> 1, day |-> 1],
     NoDate}

\* What new Date() can read when the date field is empty.
Clock == {LocalDate(2025, 2, 31), LocalDate(2025, 3, 1)}

ChallanTypes == {"delivery", "return"}
ItemIds == {1, 2}
Parties == {1, 2}
Agreements == {1, 2}

Line(itemId, quantity) == [itemId |-> itemId, quantity |-> quantity]

\* Challans that differ in their number: type, financial year, sequence number.
NumberedChallans ==
    {[challanNumber |-> <<IF t = "delivery" THEN "D" ELSE "R">> \o fy \o <<n>>,
      type |-> t, partyId |-> 1, agreementId |-> 1, status |-> "confirmed",
      items |-> <<Line(1, 1)>>] :
        t \in ChallanTypes, fy \in {<<2024, 25>>, <<2025, 26>>}, n \in {1, 2}}

\* Challans that differ in what they move, for whom, and in their status.
ItemChallans ==
    {[challanNumber |-> <<IF t = "delivery" THEN "D" ELSE "R", 2025, 26, 1>>,
      type |-> t, partyId |-> o[1], agreementId |-> o[2], status |-> s,
      items |-> ls] :
        t \in ChallanTypes,
        o \in {<<1, 1>>, <<1, 2>>, <<2, 1>>},
        s \in {"draft", "confirmed", "cancelled"},
        ls \in {<<Line(1, 1)>>, <<Line(2, 1)>>, <<Line(1, 2), Line(1, 1)>>}}

\* The states of useGetNextChallanNumberQuery: fetching, failed, skipped, answered.
NextNumberQueries ==
    {FetchingQuery,
     [data |-> NoNumber, isFetching |-> FALSE, isError |-> TRUE],
     [data |-> NoNumber, isFetching |-> FALSE, isError |-> FALSE],
     [data |-> <<"D", 2025, 26, 1>>, isFetching |-> FALSE, isError |-> FALSE]}

\* The render uses the local prediction.
PredictsLocally(form) ==
    /\ form.nextNumber.data = NoNumber
    /\ form.nextNumber.isError \/ ~form.nextNumber.isFetching

\* One render of ChallanForm: both memos, and the getFinancialYear call the
\* local prediction makes.
Render(cs, form) ==
    \E now \in Clock :
        /\ predictedNumber' = predictedNumberMemo(cs, form, now, timezone)
        /\ localItemsMap' = localItemsMapMemo(cs, form)
        /\ fyCall' = IF PredictsLocally(form)
                     THEN LET date == newDate(form.date, now, timezone)
                          IN  [made |-> TRUE, date |-> date,
                               result |-> getFinancialYear(date)]
                     ELSE fyCall

\* The challans query delivers a list one challan longer.
LoadChallan(c) ==
    /\ Len(challans) < MaxChallans
    /\ challans' = Append(challans, c)
    /\ Render(challans', challanForm)
    /\ UNCHANGED <<authVars, fieldVars, timezone, challanForm>>

\* The user sets the type and the date.
SetTypeAndDate(type, date) ==
    /\ challanForm' = [challanForm EXCEPT !.type = type, !.date = date]
    /\ Render(challans, challanForm')
    /\ UNCHANGED <<authVars, fieldVars, timezone, challans>>

\* The next-number query changes state.
NextNumberSettles(q) ==
    /\ challanForm' = [challanForm EXCEPT !.nextNumber = q]
    /\ Render(challans, challanForm')
    /\ UNCHANGED <<authVars, fieldVars, timezone, challans>>

\* The user selects a party and an agreement, or clears them.
SelectPartyAgreement(p, a) ==
    /\ challanForm' = [challanForm EXCEPT !.partyId = p, !.agreementId = a]
    /\ Render(challans, challanForm')
    /\ UNCHANGED <<authVars, fieldVars, timezone, challans>>

NumberInit ==
    /\ AuthInit
    /\ FieldIdle
    /\ challans = <<>>
    /\ timezone \in Timezones
    /\ challanForm = DefaultForm
    /\ predictedNumber = NoNumber
    /\ localItemsMap = EmptyMap
    /\ fyCall = NoCall

NumberNext ==
    \/ \E c \in NumberedChallans : LoadChallan(c)
    \/ \E t \in ChallanTypes, d \in DateStrings : SetTypeAndDate(t, d)
    \/ \E q \in NextNumberQueries : NextNumberSettles(q)

NumberSpec == NumberInit /\ [][NumberNext]_vars

ItemsNext ==
    \/ \E c \in ItemChallans : LoadChallan(c)
    \/ \E p \in {Null, 1}, a \in {Null, 1} : SelectPartyAgreement(p, a)

ItemsSpec == Init /\ [][ItemsNext]_vars

(* ----------------------- EditableField: events ------------------------- *)
\* The isSaving prop: the parent passes its mutation's isLoading.
isSaving == \E i \in DOMAIN saves : saves[i].pc = "pending"

\* The sync effect after a render that is not in edit mode.
syncEditValue(f, v) ==
    IF f.isEditing THEN f ELSE [f EXCEPT !.editValue = orEmpty(v)]

enterEditMode ==
    /\ ~field.isEditing
    /\ ~isSaving
    /\ field' = [isEditing |-> TRUE, editValue |-> orEmpty(value),
                 error |-> NoError, focused |-> TRUE]
    /\ UNCHANGED <<authVars, challanVars, inputType, value, saves>>

handleInputChange(rawValue) ==
    /\ field.isEditing
    /\ field.focused
    /\ field' = [field EXCEPT !.editValue = Str(rawValue)]
    /\ UNCHANGED <<authVars, challanVars, inputType, value, saves>>

\* cancelEdit, to be used by Escape and the cancel button.
cancelEdit ==
    /\ field' = [isEditing |-> FALSE, editValue |-> orEmpty(value),
                 error |-> NoError, focused |-> FALSE]
    /\ UNCHANGED <<authVars, challanVars, inputType, value, saves>>

\* commitEdit up to its await: focused says whether the input keeps the focus.
commitEdit(focused) ==
    LET finalValue == IF inputType = "number" THEN Number(field.editValue)
                      ELSE field.editValue
    IN  /\ IF finalValue = value
           THEN /\ field' = syncEditValue(
                                [field EXCEPT !.isEditing = FALSE,
                                              !.focused = FALSE], value)
                /\ UNCHANGED saves
           ELSE /\ Len(saves) < MaxSaves
                /\ field' = [field EXCEPT !.error = NoError, !.focused = focused]
                /\ saves' = Append(saves, [value |-> finalValue, pc |-> "pending"])
        /\ UNCHANGED <<authVars, challanVars, inputType, value>>

\* Enter in the input: handleKeyDown.
KeyEnter ==
    /\ field.isEditing
    /\ field.focused
    /\ inputType # "textarea"
    /\ commitEdit(TRUE)

\* Escape in the input: handleKeyDown.
KeyEscape ==
    /\ field.isEditing
    /\ field.focused
    /\ cancelEdit

\* The input loses the focus: onBlur, which the textarea does not have.
Blur ==
    /\ field.isEditing
    /\ field.focused
    /\ IF inputType = "textarea"
       THEN /\ field' = [field EXCEPT !.focused = FALSE]
            /\ UNCHANGED <<authVars, challanVars, inputType, value, saves>>
       ELSE commitEdit(FALSE)

\* The user clicks back into the input.
FocusInput ==
    /\ field.isEditing
    /\ ~field.focused
    /\ field' = [field EXCEPT !.focused = TRUE]
    /\ UNCHANGED <<authVars, challanVars, inputType, value, saves>>

\* The save button, which the focus has left the input to reach.
SaveClick ==
    /\ field.isEditing
    /\ ~field.focused
    /\ ~isSaving
    /\ commitEdit(FALSE)

\* The cancel button.
CancelClick ==
    /\ field.isEditing
    /\ ~field.focused
    /\ ~isSaving
    /\ cancelEdit

\* onSave resolves: the parent's value is the saved one, commitEdit resumes.
SaveResolved(i) ==
    /\ saves[i].pc = "pending"
    /\ saves' = [saves EXCEPT ![i].pc = "resolved"]
    /\ value' = saves[i].value
    /\ field' = syncEditValue([field EXCEPT !.isEditing = FALSE,
                                            !.focused = FALSE], value')
    /\ UNCHANGED <<authVars, challanVars, inputType>>

\* onSave rejects: commitEdit's catch.
SaveRejected(i) ==
    /\ saves[i].pc = "pending"
    /\ saves' = [saves EXCEPT ![i].pc = "rejected"]
    /\ field' = [field EXCEPT !.error = SaveFailedMsg]
    /\ UNCHANGED <<authVars, challanVars, inputType, value>>

FieldInit ==
    /\ AuthInit
    /\ ChallanIdle
    /\ inputType \in InputTypes
    /\ value \in PropValues(inputType)
    /\ field = ViewMode(value)
    /\ saves = <<>>

FieldNext ==
    \/ enterEditMode
    \/ \E raw \in RawValues(inputType) : handleInputChange(raw)
    \/ KeyEnter
    \/ KeyEscape
    \/ Blur
    \/ FocusInput
    \/ SaveClick
    \/ CancelClick
    \/ \E i \in DOMAIN saves : SaveResolved(i)
    \/ \E i \in DOMAIN saves : SaveRejected(i)

FieldSpec == FieldInit /\ [][FieldNext]_vars

(* ------------------------ derived quantities --------------------------- *)
CallIds == DOMAIN calls

\* The invocations that went as far as issuing the token-exchange request.
Requested(code) == {i \in CallIds : calls[i].code = code /\ calls[i].requested}

\* The initiateLogin calls that stored their values with invitation token t.
StoredWith(t) ==
    {k \in DOMAIN logins : logins[k].pc = "stored" /\ logins[k].invitationToken = t}

\* A handleCallback invocation is appended by this step and ends rejected
\* for its state parameter.
RejectedStep ==
    /\ Len(calls') = Len(calls) + 1
    /\ calls'[Len(calls')].state # calls'[Len(calls')].storedState

\* Invocation i takes, in this step, the token endpoint's answer of the
\* given kind ("ok", "error", "rejected").
Answered(i, kind) ==
    /\ calls[i].pc = "exchange"
    /\ i \in DOMAIN calls'
    /\ calls'[i].response = kind

\* Invocation i returns in this step, its /auth/sync fetch having settled.
Returned(i) ==
    /\ calls[i].pc = "sync"
    /\ i \in DOMAIN calls'
    /\ calls'[i].pc = "done"

\* A callback visit fails in this step: the effect turns the visitor away
\* without calling handleCallback, or an invocation ends unsuccessful.
FailedVisitStep ==
    \/ EffectRedirectLogin
    \/ \E i \in DOMAIN calls' :
          /\ calls'[i].pc = "done"
          /\ ~calls'[i].success
          /\ i \in DOMAIN calls => calls[i].pc # "done"

\* The step wrote no credential.
CredentialsKept ==
    /\ local' = local
    /\ auth'.token = auth.token
    /\ auth'.refreshToken = auth.refreshToken
    /\ auth'.idToken = auth.idToken
    /\ auth'.isAuthenticated = auth.isAuthenticated

\* This step is the logout action, dispatched by the hook or by a 401.
LogoutStep == Logout401 \/ LogoutClick

AllCleared ==
    /\ local = EmptyLocal
    /\ session = EmptySession
    /\ auth.user = Null
    /\ auth.token = Null
    /\ auth.refreshToken = Null
    /\ auth.idToken = Null
    /\ auth.currentBusinessId = Null
    /\ ~auth.isAuthenticated

(* ------------------------------- C1 ------------------------------------ *)
\* C1: a token-exchange request is issued only by an invocation whose state
\* parameter equalled the stored oauth_state; an invocation whose state
\* differs (or finds none stored) issues no request, ends with success =
\* false and the 'Invalid OAuth state' error, and changes no credential.
C1_RequestOnlyAfterValidState ==
    /\ [](\A i \in CallIds :
            /\ calls[i].requested => calls[i].state = calls[i].storedState
            /\ calls[i].state # calls[i].storedState =>
                  /\ ~calls[i].requested
                  /\ calls[i].pc = "done"
                  /\ ~calls[i].success
                  /\ calls[i].failure = InvalidStateMsg
                  /\ calls[i].access = Null)
    /\ [][RejectedStep =>
            /\ exchangeCount' = exchangeCount
            /\ local' = local
            /\ auth'.token = auth.token
            /\ auth'.refreshToken = auth.refreshToken
            /\ auth'.idToken = auth.idToken
            /\ auth'.isAuthenticated = auth.isAuthenticated
            /\ auth'.error = InvalidStateMsg]_vars

C1_Witness ==
    \E i \in CallIds :
        /\ calls[i].storedState # Null
        /\ calls[i].state # calls[i].storedState
        /\ calls[i].failure = InvalidStateMsg

(* ------------------------------- C2 ------------------------------------ *)
\* C2: once an exchange attempt is over, whatever its outcome, neither
\* pkce_code_verifier nor oauth_state is in session storage.
C2_KeysAbsentAfterAnyExchange ==
    \A i \in CallIds :
        calls[i].requested /\ calls[i].pc # "exchange" =>
            /\ calls[i].verifierAfterExchange = Null
            /\ calls[i].stateAfterExchange = Null

(* ------------------------------- C3 ------------------------------------ *)
\* C3: after the logout action, and until a new login is initiated, the app
\* is not authenticated and durable storage holds no tokens.
C3_NoReauthenticationAfterLogout ==
    logoutSinceLogin =>
        /\ ~auth.isAuthenticated
        /\ local.token = Null
        /\ local.refreshToken = Null

(* ------------------------------- C4 ------------------------------------ *)
\* C4: within a page lifetime a code is submitted for exchange at most
\* once, and when a second delivery of the callback arrives while the
\* first exchange is in flight, exactly one request has been issued for it.
C4_OneExchangePerCode ==
    /\ \A c \in Codes : Cardinality(Requested(c)) <= 1
    /\ (effectRuns >= 2 /\ \E i \in CallIds : calls[i].pc = "exchange") =>
            Cardinality(Requested(url.code)) = 1

C4_Witness ==
    /\ effectRuns >= 2
    /\ \E i \in CallIds : calls[i].pc = "exchange" /\ calls[i].code = url.code

(* ------------------------------- C5 ------------------------------------ *)
\* C5: after a callback rejected for a mismatched state, oauth_state is no
\* longer in session storage.
C5_StateDiscardedAfterValidation ==
    \A i \in CallIds :
        calls[i].state # calls[i].storedState =>
            calls[i].stateAfterValidation = Null

(* ------------------------------- C6 ------------------------------------ *)
\* C6: for one stored oauth_state at most one token-exchange request is
\* ever issued.
C6_OneExchangePerState ==
    \A s \in DOMAIN exchangeCount : exchangeCount[s] <= 1

(* ------------------------------- C7 ------------------------------------ *)
\* C7: every step that is the logout action ends with the four durable
\* keys and the three session keys absent, and with user, token,
\* refreshToken, idToken, currentBusinessId null and isAuthenticated false.
C7_LogoutClearsEverything == [][LogoutStep => AllCleared']_vars

C7_Witness ==
    /\ logoutSinceLogin
    /\ AllCleared
    /\ \E s \in DOMAIN exchangeCount : exchangeCount[s] > 0

(* ------------------------------- C8 ------------------------------------ *)
\* C8: a successful callback returns an invitation token only if the login
\* that stored the state it matched was initiated with that token.
C8_InvitationOnlyFromOwnLogin ==
    \A i \in CallIds :
        (calls[i].pc = "done" /\ calls[i].success
            /\ calls[i].invitationToken # Null) =>
            logins[calls[i].state].invitationToken = calls[i].invitationToken

(* ------------------------------- C9 ------------------------------------ *)
\* C9: a successful callback matching a login initiated with invitation
\* token T returns T and navigates to /invitations/T; the invitation_token
\* key is absent once the callback has returned; and T is returned at most
\* as often as a login initiated with T has stored it.
C9_InvitationCarriedOnce ==
    /\ \A i \in CallIds :
          (calls[i].pc = "done" /\ calls[i].success) =>
              /\ calls[i].inviteKeyAfter = Null
              /\ LET t == logins[calls[i].state].invitationToken
                 IN  t # Null =>
                        /\ calls[i].invitationToken = t
                        /\ calls[i].nav = "/invitations"
                        /\ calls[i].navToken = t
    /\ \A t \in Invites : inviteReturns[t] <= Cardinality(StoredWith(t))

C9_Witness ==
    \E i \in CallIds :
        /\ calls[i].pc = "done" /\ calls[i].success
        /\ logins[calls[i].state].invitationToken # Null
        /\ calls[i].invitationToken = logins[calls[i].state].invitationToken
        /\ session.invitation_token = Null
        /\ route = "invitation"

(* ------------------------------- C10 ----------------------------------- *)
\* C10: the step that takes a successful token response leaves, in memory
\* and in durable storage, exactly the access, refresh and id token of that
\* response (no id token when the response carried none).
TokensAre(a, l, access, refresh, id) ==
    /\ a.token = access /\ a.refreshToken = refresh /\ a.idToken = id
    /\ l.token = access /\ l.refreshToken = refresh /\ l.idToken = id

C10_TokenSetReplacedWholesale ==
    [][/\ \A i \in CallIds :
            (calls[i].pc = "exchange" /\ i \in DOMAIN calls'
                /\ calls'[i].pc = "sync") =>
                TokensAre(auth', local', calls'[i].access, calls'[i].refresh,
                          calls'[i].id)
       /\ (accept.pc = "refreshing" /\ accept'.pc = "done"
                /\ accept'.access # Null) =>
                TokensAre(auth', local', accept'.access, accept'.refresh,
                          accept'.id)]_vars

(* ------------------------------- C11 ----------------------------------- *)
\* C11: a base-query request answered with 401 dispatches the logout action
\* (the auth state and both storages end cleared), makes exactly one fetch
\* (no retry), issues no refresh-token request and returns the 401 result.
C11_UnauthorizedLogsOutWithoutRefresh ==
    /\ [](query.status = 401 =>
            /\ query.dispatched
            /\ query.fetches = 1
            /\ query.refreshRequests = 0
            /\ query.result = 401)
    /\ [][Logout401 => AllCleared' /\ logoutSinceLogin']_vars

C11_Witness ==
    /\ query.status = 401
    /\ query.dispatched
    /\ AllCleared
    /\ \E s \in DOMAIN exchangeCount : exchangeCount[s] > 0

(* ------------------------------- C12 ----------------------------------- *)
\* C12: in every reachable auth state the user is the decoding of the
\* current access token: null when the token is null or cannot be decoded,
\* and otherwise the claims of exactly that token.
C12_UserDecodesCurrentToken ==
    auth.user = (IF auth.token = Null THEN Null ELSE parseJwt(auth.token))

C12_Witness ==
    /\ auth.token = OpaqueToken
    /\ auth.user = Null
    /\ accept.pc = "done"
    /\ accept.access = auth.token
    /\ \E i \in CallIds : calls[i].access \in Tokens

(* ------------------------------- C13 ----------------------------------- *)
\* C13: re-initialising the auth state from durable storage yields the same
\* token, refreshToken, idToken, currentBusinessId, user and isAuthenticated
\* as the auth state held before the reload.
C13_ReloadRoundTrip ==
    LET reloaded == initialState(local)
    IN  /\ reloaded.token = auth.token
        /\ reloaded.refreshToken = auth.refreshToken
        /\ reloaded.idToken = auth.idToken
        /\ reloaded.currentBusinessId = auth.currentBusinessId
        /\ reloaded.user = auth.user
        /\ reloaded.isAuthenticated = auth.isAuthenticated

(* ------------------------------- C14 ----------------------------------- *)
\* C14: a code exchange answered with a non-success status ends
\* handleCallback with success = false and with the response's
\* error_description (or 'Token exchange failed' when it has none) as the
\* stored error; token, refreshToken, isAuthenticated and durable storage
\* are as before, and no /auth/sync request is issued.
C14_ExchangeErrorReported ==
    /\ [](\A i \in CallIds :
            calls[i].response = "error" =>
                /\ calls[i].pc = "done"
                /\ ~calls[i].success
                /\ calls[i].failure =
                      (IF calls[i].description # "" THEN calls[i].description
                       ELSE "Token exchange failed")
                /\ calls[i].syncToken = Null
                /\ calls[i].syncOutcome = "none"
                /\ calls[i].access = Null)
    /\ [][\A i \in CallIds :
            Answered(i, "error") =>
                /\ auth'.error = calls'[i].failure
                /\ auth'.token = auth.token
                /\ auth'.refreshToken = auth.refreshToken
                /\ auth'.isAuthenticated = auth.isAuthenticated
                /\ local' = local]_vars

C14_Witness ==
    \E i \in CallIds :
        /\ calls[i].response = "error"
        /\ calls[i].description = "invalid_grant"
        /\ auth.error = "invalid_grant"
        /\ ~auth.isAuthenticated

(* ------------------------------- C15 ----------------------------------- *)
\* C15: whatever the outcome of the /auth/sync request, handleCallback
\* returns success = true, the credentials of the exchange stay in memory
\* and in durable storage, isAuthenticated stays true and no error is
\* recorded.
C15_SyncOutcomeIgnored ==
    /\ [](\A i \in CallIds :
            calls[i].syncOutcome # "none" =>
                /\ calls[i].pc = "done"
                /\ calls[i].success
                /\ calls[i].failure = NoError
                /\ calls[i].nav # "/login")
    /\ [][\A i \in CallIds :
            Returned(i) =>
                /\ auth'.isAuthenticated
                /\ auth'.token = calls[i].access
                /\ auth'.refreshToken = calls[i].refresh
                /\ auth'.error = NoError
                /\ local' = local]_vars

C15_Witness ==
    \E i \in CallIds :
        /\ calls[i].syncOutcome = "rejected"
        /\ calls[i].success
        /\ auth.isAuthenticated
        /\ auth.token = calls[i].access
        /\ route = "app"

(* ------------------------------- C16 ----------------------------------- *)
\* C16: the step that takes a successful exchange response leaves the
\* response's access and refresh token in durable storage and in memory,
\* isAuthenticated true and error null; the request was issued for a
\* matching state, and handleCallback returns success = true with those
\* tokens still stored.
C16_SuccessfulExchangeStored ==
    /\ [](\A i \in CallIds :
            calls[i].response = "ok" =>
                /\ calls[i].state = calls[i].storedState
                /\ calls[i].pc = "done" => calls[i].success)
    /\ [][\A i \in CallIds :
            (Answered(i, "ok") \/ Returned(i)) =>
                /\ local'.token = calls'[i].access
                /\ local'.refreshToken = calls'[i].refresh
                /\ auth'.token = calls'[i].access
                /\ auth'.refreshToken = calls'[i].refresh
                /\ calls'[i].access # Null
                /\ auth'.isAuthenticated
                /\ auth'.error = NoError]_vars

C16_Witness ==
    \E i \in CallIds :
        /\ calls[i].response = "ok"
        /\ calls[i].pc = "done"
        /\ calls[i].success
        /\ calls[i].access \in Tokens
        /\ local.token = calls[i].access
        /\ local.refreshToken = calls[i].refresh
        /\ auth.isAuthenticated

(* ------------------------------- C17 ----------------------------------- *)
\* C17: session storage holds a verifier exactly when it holds a state, and
\* both were written by the same initiateLogin call; each call that stores
\* leaves its own verifier and state (overwriting earlier ones) and
\* navigates to an authorization URL carrying that state and the challenge
\* of that verifier, so the URL navigated to last matches what is stored.
C17_LastLoginOwnsStoredValues ==
    /\ [](/\ (session.pkce_code_verifier = Null) <=> (session.oauth_state = Null)
          /\ session.pkce_code_verifier = session.oauth_state
          /\ (href.endpoint = "authorize" /\ session.oauth_state # Null) =>
                /\ href.state = session.oauth_state
                /\ href.challenge = <<"S256", session.pkce_code_verifier>>)
    /\ [][\A k \in DOMAIN logins :
            (logins[k].pc = "digest" /\ logins'[k].pc = "stored") =>
                /\ session'.pkce_code_verifier = k
                /\ session'.oauth_state = k
                /\ href'.state = k
                /\ href'.challenge = <<"S256", k>>]_vars

C17_Witness ==
    /\ Len(logins) = 2
    /\ logins[1].pc = "stored" /\ logins[2].pc = "stored"
    /\ session.oauth_state = 1
    /\ session.pkce_code_verifier = 1
    /\ href.endpoint = "authorize"
    /\ href.state = 1

(* ------------------------------- C18 ----------------------------------- *)
\* C18 as stated: every failed callback visit ends on /login with the app
\* unauthenticated and no tokens written, and a visit with an error
\* parameter or without code or state calls no handleCallback and issues
\* no request.
C18_FailedVisitEndsUnauthenticated ==
    [][FailedVisitStep =>
            /\ navigated' = "/login"
            /\ route' = "login"
            /\ ~auth'.isAuthenticated
            /\ CredentialsKept
            /\ EffectRedirectLogin =>
                  (calls' = calls /\ exchangeCount' = exchangeCount)]_vars

\* C18 amended: every failed callback visit calls navigate('/login') and
\* writes no tokens, so that token, refreshToken, idToken, isAuthenticated
\* and durable storage are what they were before (an unauthenticated
\* visitor stays on /login unauthenticated, a visitor who already held a
\* session keeps it and is forwarded by the login page); a visit with an
\* error parameter or without code or state calls no handleCallback and
\* issues no request.
C18_FailedVisitWritesNoTokens ==
    [][FailedVisitStep =>
            /\ navigated' = "/login"
            /\ route' = (IF auth.isAuthenticated THEN "app" ELSE "login")
            /\ CredentialsKept
            /\ EffectRedirectLogin =>
                  (calls' = calls /\ exchangeCount' = exchangeCount)]_vars

C18_Witness ==
    /\ navigated = "/login"
    /\ route = "app"
    /\ auth.isAuthenticated
    /\ local.token # Null
    /\ \E i \in CallIds :
          /\ calls[i].pc = "done"
          /\ ~calls[i].success
          /\ calls[i].failure = InvalidStateMsg

(* ------------------------------- C19 ----------------------------------- *)
\* C19: a refresh answered with a non-success status fails with 'Token
\* refresh failed'; in handleAccept no logout follows, the one refresh
\* request is not repeated, token, refreshToken, idToken, isAuthenticated
\* and both storages are unchanged, and the acceptance completes.
C19_RefreshFailureLeavesSession ==
    [][RefreshFailed =>
            /\ CredentialsKept
            /\ auth' = auth
            /\ session' = session
            /\ accept'.error = "Token refresh failed"
            /\ accept'.refreshRequests = 1
            /\ accept'.pc = "done"]_vars

C19_Witness ==
    /\ accept.pc = "done"
    /\ accept.error = RefreshFailedMsg
    /\ accept.refreshRequests = 1
    /\ auth.isAuthenticated
    /\ local.token # Null
    /\ local.token = auth.token

(* ------------------------------- C20 ----------------------------------- *)
\* C20: useAuth.logout issues the redirect to the provider's logout
\* endpoint with the auth state and both storages already cleared, and
\* with the id token held just before the clearing as id_token_hint (no
\* hint when none was held).
C20_LogoutRedirectCarriesIdToken ==
    [][LogoutClick =>
            /\ href'.endpoint = "logout"
            /\ href'.hint = auth.idToken
            /\ href'.storedToken = Null
            /\ AllCleared']_vars

C20_Witness ==
    /\ href.endpoint = "logout"
    /\ href.hint \in Tokens
    /\ href.storedToken = Null
    /\ AllCleared

(* ------------------------------- C21 ----------------------------------- *)
\* C21: an invocation issues at most one /auth/sync request, only after its
\* own exchange succeeded for a matching state, with the access token of
\* that exchange, which is stored in memory and in durable storage when
\* the request goes out; an invocation rejected for its state or whose
\* exchange failed issues none.
C21_SyncOnlyAfterStoredExchange ==
    /\ [](\A i \in CallIds :
            /\ calls[i].syncRequests <= 1
            /\ calls[i].syncRequests = 1 =>
                  /\ calls[i].response = "ok"
                  /\ calls[i].requested
                  /\ calls[i].state = calls[i].storedState
                  /\ calls[i].access # Null
                  /\ calls[i].syncToken = calls[i].access
            /\ (calls[i].state # calls[i].storedState
                    \/ calls[i].response \in {"error", "rejected"}) =>
                  /\ calls[i].syncRequests = 0
                  /\ calls[i].syncToken = Null
                  /\ calls[i].syncOutcome = "none")
    /\ [][\A i \in CallIds :
            (i \in DOMAIN calls' /\ calls'[i].syncRequests > calls[i].syncRequests) =>
                /\ Answered(i, "ok")
                /\ auth'.token = calls'[i].syncToken
                /\ local'.token = calls'[i].syncToken
                /\ auth'.isAuthenticated]_vars

C21_Witness ==
    \E i \in CallIds :
        /\ calls[i].pc = "sync"
        /\ calls[i].syncRequests = 1
        /\ calls[i].syncToken = calls[i].access
        /\ calls[i].id = Null
        /\ local.token = calls[i].syncToken

(* ------------------------------- C25 ----------------------------------- *)
\* C25: whenever isAuthenticated is true, token and user are non-null.
C25_AuthenticatedHasIdentity ==
    auth.isAuthenticated => (auth.token # Null /\ auth.user # Null)

(* ------------------------------- C26 ----------------------------------- *)
\* C26: a callback page showing a URL with a code and a state eventually
\* navigates (to '/', '/invitations/<token>' or '/login') unless the page
\* is unloaded first, also when the effect has run again for a code it had
\* already processed.
C26_CallbackVisitNavigatesAway ==
    \A n \in 0..MaxLoads :
        (route = "callback" /\ url.code # Null /\ url.state # Null /\ loads = n)
            ~> (navigated # "none" \/ loads > n)

C26_Witness ==
    /\ effectRuns >= 2
    /\ navigated \in {"/", "/invitations", "/login"}
    /\ route # "callback"
    /\ \E i \in CallIds : calls[i].pc = "done" /\ calls[i].code \in processedCodes

(* ------------------------------- C27 ----------------------------------- *)
\* C27: isLoading is true while a handleCallback invocation is between its
\* start and its result (exchange or sync pending), and false in the step
\* in which it returns, on the success and on the failure path.
C27_LoadingSpansCallback ==
    /\ [](\A i \in CallIds :
            calls[i].pc \in {"exchange", "sync"} => auth.isLoading)
    /\ [][\A i \in DOMAIN calls' :
            (calls'[i].pc = "done" /\ (i \in DOMAIN calls => calls[i].pc # "done"))
                => ~auth'.isLoading]_vars

(* ------------------------------- C28 ----------------------------------- *)
\* C28: the durable values of token, refreshToken, idToken and
\* currentBusinessId equal the auth state's fields of the same name, an
\* absent key standing for null.
C28_StorageMirrorsState ==
    /\ local.token = auth.token
    /\ local.refreshToken = auth.refreshToken
    /\ local.idToken = auth.idToken
    /\ local.currentBusinessId = auth.currentBusinessId

C28_Witness ==
    /\ auth.token \in Tokens
    /\ auth.idToken = Null
    /\ auth.currentBusinessId \in Businesses
    /\ local.currentBusinessId = auth.currentBusinessId
    /\ local.token = auth.token
    /\ auth.isAuthenticated

(* ------------------------------- C22 ----------------------------------- *)
\* The financial year a date string lies in, by its calendar month.
FinancialYearOf(dateStr) ==
    IF dateStr.month <= 3 THEN <<dateStr.year - 1, dateStr.year % 100>>
    ELSE <<dateStr.year, (dateStr.year + 1) % 100>>

\* The challans whose number starts with the given prefix and financial year.
NumberedLike(pattern) ==
    {i \in DOMAIN challans : startsWith(challans[i].challanNumber, pattern)}

\* C22: the locally predicted number for a type and a date is the prefix of
\* the type ('D' for delivery, 'R' for return), the financial year of the
\* date, and one plus the number of listed challans whose number starts with
\* that prefix and year; other challans do not count.
C22_PredictedNumberFormat ==
    (PredictsLocally(challanForm) /\ challanForm.date # NoDate) =>
        LET pattern == <<IF challanForm.type = "delivery" THEN "D" ELSE "R">>
                           \o FinancialYearOf(challanForm.date)
        IN  predictedNumber = pattern \o <<1 + Cardinality(NumberedLike(pattern))>>

(* ------------------------------- C23 ----------------------------------- *)
\* The item lines <<challan, line>> of the listed challans of a type that are
\* confirmed and belong to the selected party and agreement.
ConfirmedLines(type, itemId) ==
    {x \in (DOMAIN challans) \X {1, 2} :
        /\ challans[x[1]].partyId = challanForm.partyId
        /\ challans[x[1]].agreementId = challanForm.agreementId
        /\ challans[x[1]].status = "confirmed"
        /\ challans[x[1]].type = type
        /\ x[2] \in DOMAIN challans[x[1]].items
        /\ challans[x[1]].items[x[2]].itemId = itemId}

RECURSIVE SumQuantity(_)
SumQuantity(lines) ==
    IF lines = {} THEN 0
    ELSE LET x == CHOOSE y \in lines : TRUE
         IN  challans[x[1]].items[x[2]].quantity + SumQuantity(lines \ {x})

\* C23: for a selected party and agreement, the quantity computed for each
\* item is the sum over the confirmed delivery lines of that party and
\* agreement minus the sum over the confirmed return lines, whatever the
\* order of the list; no other challan contributes.
C23_NetQuantityPerItem ==
    (challanForm.partyId # Null /\ challanForm.agreementId # Null) =>
        \A itemId \in ItemIds :
            mapGet(localItemsMap, itemId) =
                SumQuantity(ConfirmedLines("delivery", itemId))
                    - SumQuantity(ConfirmedLines("return", itemId))

C23_Witness ==
    /\ challanForm.partyId = 1
    /\ challanForm.agreementId = 1
    /\ Len(challans) = 2
    /\ challans[1].type = "return"
    /\ challans[2].type = "delivery"
    /\ \A i \in DOMAIN challans :
          /\ challans[i].status = "confirmed"
          /\ challans[i].partyId = 1
          /\ challans[i].agreementId = 1
    /\ mapGet(localItemsMap, 1) = 2

(* ------------------------------- C24 ----------------------------------- *)
\* C24: getFinancialYear of a date in January to March of year Y is
\* (Y-1)-(Y as two digits), and of a date in April to December of year Y is
\* Y-(Y+1 as two digits).
C24_FinancialYearBoundary ==
    fyCall.made =>
        fyCall.result =
            IF fyCall.date.month \in 0..2
            THEN <<fyCall.date.year - 1, fyCall.date.year % 100>>
            ELSE <<fyCall.date.year, (fyCall.date.year + 1) % 100>>

C24_Witness ==
    /\ fyCall.made
    /\ fyCall.date = LocalDate(2025, 2, 31)
    /\ fyCall.result = <<2024, 25>>

(* ------------------------------- C29 ----------------------------------- *)
\* C29: the locally predicted challan number is the number of no challan in
\* the list it was computed from.
C29_PredictedNumberUnused ==
    PredictsLocally(challanForm) =>
        \A i \in DOMAIN challans : challans[i].challanNumber # predictedNumber

(* ------------------------------- C30 ----------------------------------- *)
\* The onSave calls that have not settled.
InFlight(ss) == {i \in DOMAIN ss : ss[i].pc = "pending"}

\* A step that runs commitEdit: Enter, blur of an input, or the save button.
CommitStep ==
    \/ KeyEnter
    \/ Blur /\ inputType # "textarea"
    \/ SaveClick

\* A step that runs cancelEdit: Escape or the cancel button.
CancelStep == KeyEscape \/ CancelClick

\* Committing while the input holds what entering edit mode put there leaves
\* edit mode and calls onSave not at all.
UnchangedCommitLeaves ==
    (CommitStep /\ field.editValue = orEmpty(value)) =>
        (~field'.isEditing /\ saves' = saves)

\* A rejected onSave leaves the field in edit mode with the value the user
\* typed and an error message.
FailedSaveKeepsEditing ==
    \A i \in DOMAIN saves :
        (SaveRejected(i) /\ field.isEditing) =>
            /\ field'.isEditing
            /\ field'.editValue = field.editValue
            /\ field'.error # NoError

\* Cancelling leaves edit mode, resets the edit value and calls onSave not at all.
CancelLeaves ==
    CancelStep =>
        /\ ~field'.isEditing
        /\ field'.editValue = orEmpty(value)
        /\ saves' = saves

\* C30: in an edit session, committing an unchanged value leaves edit mode
\* without an onSave call, a failed onSave keeps edit mode with the edited
\* value and an error, cancel leaves edit mode with the edit value reset and
\* no onSave call, and no step leaves more than one onSave call in flight.
C30_EditSessionContract ==
    [][/\ UnchangedCommitLeaves
       /\ FailedSaveKeepsEditing
       /\ CancelLeaves
       /\ Cardinality(InFlight(saves')) <= 1]_vars

=============================================================================
